---- MODULE Spec2Model ----
(***************************************************************************)
(* Ingestion-and-reconciliation core of the CraftNudge commit logger:      *)
(* the webhook receiver (services/github_webhook_handler.py behind the     *)
(* Flask route of webhook_server.py), the storage layer                    *)
(* (services/database_service.py), the reconciliation loop                 *)
(* (services/continuous_monitor.py), the agent dispatcher                  *)
(* (legacy/agent_orchestrator.py) and the repository registry              *)
(* (legacy/repository_manager.py, legacy/database_service.py).             *)
(*                                                                         *)
(* Tables are sequences of rows; a row's SERIAL id is its index.           *)
(* Threads are integers: WebThreads are request threads of the threaded    *)
(* Flask server, Monitor is the monitor loop, and -k is the k-th analysis  *)
(* thread started by _trigger_agent_processing.                            *)
(***************************************************************************)
EXTENDS Integers, Sequences, FiniteSets, TLC

VARIABLES
    webhook_secret,   \* GitHubWebhookHandler.webhook_secret ("" = not configured)
    enable_agents,    \* ContinuousMonitor.enable_agents
    events,           \* table github_events
    commits,          \* table commits (services schema: commit_hash UNIQUE)
    interactions,     \* table agent_interactions
    thr,              \* per thread: program position and locals
    delivered,        \* number of webhook deliveries received so far
    cycles,           \* number of monitor cycles completed so far
    backendUp,        \* per backend: would an analysis call succeed now
    repositories,     \* table repositories (legacy schema)
    lcommits,         \* table commits (legacy schema: UNIQUE(commit_hash, repository_id))
    calls,            \* number of registry calls made so far
    ret,              \* the last registry call and the id it returned (0: it raised)
    running,          \* ContinuousMonitor.running
    loop,             \* position of the thread that runs _monitor_loop
    stopper,          \* position of the thread that calls stop()
    closed,           \* the storage connection of the monitor is closed
    file,             \* the JSONL file of DataStorageService, a sequence of lines
    saved,            \* the entries DataStorageService.save_commit created, in call order
    loaded,           \* the last load_commits call: its limit and the list it returned
    storageUp,        \* a storage call of the monitor made now would succeed
    conn,             \* the psycopg2 connection of a DatabaseService shared by threads
    writer,           \* per thread: its position inside a save_* call on that connection
    returned,         \* the ids that save_* calls on that connection have returned
    jobs,             \* number of monitor_cycle jobs in the job list of schedule
    monitors,         \* the threads start() has created, each with its position
    attempts          \* number of calls of start() and stop() made so far

vars == <<webhook_secret, enable_agents, events, commits, interactions, thr, delivered,
          cycles, backendUp, repositories, lcommits, calls, ret,
          running, loop, stopper, closed, file, saved, loaded,
          storageUp, conn, writer, returned,
          jobs, monitors, attempts>>

registryVars == <<repositories, lcommits, calls, ret>>

lifecycleVars == <<running, loop, stopper, closed>>

fileVars == <<file, saved, loaded>>

connVars == <<conn, writer, returned>>

restartVars == <<jobs, monitors, attempts>>

\* the state of the components that stand apart from the tables
otherVars == <<fileVars, storageUp, connVars, restartVars>>

\* the state of the database, the request threads and the monitor
serverVars == <<webhook_secret, enable_agents, events, commits, interactions, thr,
                delivered, cycles, backendUp, registryVars, lifecycleVars>>

----------------------------------------------------------------------------
(* Bounds *)

MaxDeliveries == 2
MaxCycles == 2
MaxCalls == 3
MaxAttempts == 4

----------------------------------------------------------------------------
(* Threads *)

WebThreads == {1, 2}
Monitor == 0
\* _trigger_agent_processing starts a thread only after a replayed event,
\* and each delivery leaves one event to replay
AnaThreads == {-k : k \in 1..MaxDeliveries}
Threads == WebThreads \cup {Monitor} \cup AnaThreads

----------------------------------------------------------------------------
(* Webhook deliveries: the JSON bodies the upstream platform can send.     *)
(* ok = FALSE marks a commit entry from which handle_push_event cannot     *)
(* extract the commit information (a missing key, a file entry of the      *)
(* wrong shape): the extraction raises.                                    *)

Entry(id, author, message, ts, files, ok) ==
    [id |-> id, author |-> author, message |-> message, ts |-> ts,
     files |-> files, ok |-> ok]

Payloads == <<
    [kind |-> "push", repo |-> "acme/widgets", head |-> "deadbeef",
     commits |-> << Entry("deadbeef", "Ada", "fix bug", 1, <<>>, TRUE) >>],
    [kind |-> "push", repo |-> "acme/widgets", head |-> "deadbeef",
     commits |-> << Entry("deadbeef", "Bob", "fix bug v2", 1, <<"a.py">>, TRUE) >>],
    [kind |-> "push", repo |-> "acme/gadgets", head |-> "cafe",
     commits |-> << Entry("deadbeef", "Cy", "mirror", 1, <<"a.py">>, TRUE),
                    Entry("cafe", "Cy", "wip", 2, <<"b.py">>, FALSE),
                    Entry("f00d", "Cy", "docs", 3, <<"c.md">>, TRUE) >>],
    [kind |-> "pull_request", repo |-> "acme/widgets", head |-> "deadbeef",
     commits |-> << >>],
    [kind |-> "ping", repo |-> "acme/widgets", head |-> "",
     commits |-> << >>]
  >>

PayloadIds == DOMAIN Payloads

Hashes == UNION {{Payloads[p].commits[k].id : k \in DOMAIN Payloads[p].commits} :
                    p \in PayloadIds}

Repos == {Payloads[p].repo : p \in PayloadIds}

----------------------------------------------------------------------------
(* Signature verification *)

\* hmac.new(key, payload, sha256).hexdigest() prefixed with "sha256=":
\* a value determined by the key and the body, different for different ones.
Hmac(key, body) == <<"sha256=", key, body>>

NoSignature == <<"", "", 0>>

SenderSecret == "s3cret"

\* the signature headers a delivery of body p can carry
Signatures(p) == {Hmac(SenderSecret, p), Hmac("guess", p), NoSignature}

verify_signature(secret, payload, signature) ==
    IF secret = "" THEN TRUE
    ELSE signature = Hmac(secret, payload)

----------------------------------------------------------------------------
(* Exceptions and the route's mapping of them to an HTTP status *)

Superclasses(cls) ==
    CASE cls = "DataStorageError" -> {"DataStorageError", "CraftNudgeError", "Exception"}
      [] cls = "ValueError"       -> {"ValueError", "Exception"}
      [] OTHER                    -> {cls, "Exception"}

IsInstance(cls, of) == of \in Superclasses(cls)

\* handle_webhook: whatever is raised inside its try block is caught by
\* "except Exception" and raised again as DataStorageError
handle_webhook_raises(inner) ==
    IF IsInstance(inner, "Exception") THEN "DataStorageError" ELSE inner

\* github_webhook: except ValueError -> 401, except Exception -> 500
github_webhook_status(exc) ==
    IF exc = "" THEN 200
    ELSE IF IsInstance(exc, "ValueError") THEN 401
    ELSE 500

----------------------------------------------------------------------------
(* Storage layer, services/database_service.py *)

EventRow(event_type, repository, commit_hash, data, shape) ==
    [event_type |-> event_type, repository |-> repository,
     commit_hash |-> commit_hash, data |-> data, shape |-> shape,
     processed |-> FALSE]

save_github_event_upsert(tbl, event_type, repository, commit_hash, data, shape) ==
    LET same == {i \in DOMAIN tbl : /\ tbl[i].event_type = event_type
                                    /\ tbl[i].repository = repository
                                    /\ tbl[i].commit_hash = commit_hash
                                    /\ tbl[i].shape = shape}
    IN  IF same = {} THEN Append(tbl, EventRow(event_type, repository, commit_hash, data, shape))
        ELSE LET i == CHOOSE j \in same : TRUE
             IN  [tbl EXCEPT ![i] = EventRow(event_type, repository, commit_hash, data, shape)]

save_github_event_processed(tbl, event_type, repository, commit_hash, data, shape) ==
    Append(tbl, [EventRow(event_type, repository, commit_hash, data, shape)
                    EXCEPT !.processed = TRUE])

\* INSERT INTO github_events ... RETURNING id (processed defaults to FALSE)
save_github_event(tbl, event_type, repository, commit_hash, data, shape) ==
    Append(tbl, EventRow(event_type, repository, commit_hash, data, shape))

\* SELECT * FROM github_events WHERE processed = FALSE ORDER BY timestamp ASC
RECURSIVE UnprocessedFrom(_, _)
UnprocessedFrom(tbl, i) ==
    IF i > Len(tbl) THEN << >>
    ELSE IF tbl[i].processed THEN UnprocessedFrom(tbl, i + 1)
    ELSE <<i>> \o UnprocessedFrom(tbl, i + 1)

get_unprocessed_github_events(tbl) == UnprocessedFrom(tbl, 1)

\* UPDATE github_events SET processed = TRUE WHERE id = %s
mark_event_processed(tbl, event_id) ==
    [tbl EXCEPT ![event_id].processed = TRUE]

CommitInfo(repository, e) ==
    [commit_hash |-> e.id, author |-> e.author, message |-> e.message,
     timestamp_commit |-> e.ts, repository_path |-> repository,
     changed_files |-> e.files]

\* SELECT * FROM commits WHERE commit_hash = %s; 0 stands for None
get_commit_by_hash(tbl, commit_hash) ==
    IF \E i \in DOMAIN tbl : tbl[i].commit_hash = commit_hash
    THEN CHOOSE i \in DOMAIN tbl : tbl[i].commit_hash = commit_hash
    ELSE 0

save_commit_insert_only(tbl, info) == Append(tbl, info)

\* INSERT INTO commits ... ON CONFLICT (commit_hash) DO UPDATE SET
\* author, message, timestamp_commit, branch, repository_path,
\* changed_files, metadata = EXCLUDED.*
save_commit(tbl, info) ==
    LET i == get_commit_by_hash(tbl, info.commit_hash)
    IN  IF i = 0 THEN Append(tbl, info) ELSE [tbl EXCEPT ![i] = info]

----------------------------------------------------------------------------
(* Thread state *)

IdleThread ==
    [pc |-> "idle", pl |-> 0, auth |-> TRUE, ev |-> 0, i |-> 0,
     todo |-> << >>, n |-> 0, stage |-> "", status |-> 0,
     raised |-> FALSE, result |-> ""]

IsWeb(t) == t \in WebThreads

Set(t, r) == thr' = [thr EXCEPT ![t] = r]

----------------------------------------------------------------------------
(* Webhook ingestor: github_webhook -> handle_webhook *)

\* The position a handler continues at once the event kind is known
Interpret(kind) ==
    CASE kind = "push"         -> "push"
      [] kind = "pull_request" -> "pr"
      [] OTHER                 -> "mark"

\* handle_webhook failed: the route answers with the status of the exception
Respond(t, inner) ==
    Set(t, [IdleThread EXCEPT
               !.status = github_webhook_status(handle_webhook_raises(inner))])

handle_webhook_store_first(w, p, sig) ==
    /\ events' = save_github_event(events, Payloads[p].kind, Payloads[p].repo,
                                   Payloads[p].head, p, "raw")
    /\ IF verify_signature(webhook_secret, p, sig)
       THEN Set(w, [IdleThread EXCEPT !.pc = Interpret(Payloads[p].kind), !.pl = p,
                                      !.ev = Len(events'), !.i = 1])
       ELSE Set(w, [IdleThread EXCEPT !.auth = FALSE,
                       !.status = github_webhook_status(handle_webhook_raises("ValueError"))])

\* handle_webhook up to and including save_github_event
handle_webhook(w, p, sig) ==
    IF verify_signature(webhook_secret, p, sig)
    THEN /\ events' = save_github_event(events, Payloads[p].kind, Payloads[p].repo,
                                        Payloads[p].head, p, "raw")
         /\ Set(w, [IdleThread EXCEPT !.pc = Interpret(Payloads[p].kind), !.pl = p,
                                      !.ev = Len(events'), !.i = 1])
    ELSE /\ events' = events
         /\ Set(w, [IdleThread EXCEPT !.auth = FALSE,
                       !.status = github_webhook_status(handle_webhook_raises("ValueError"))])

\* github_webhook: a delivery arrives and a free request thread takes it
ReceiveFrom(w, bodies) ==
    /\ IsWeb(w)
    /\ thr[w].pc = "idle"
    /\ \A v \in WebThreads : v < w => thr[v].pc # "idle"
    /\ delivered < MaxDeliveries
    /\ \E p \in bodies : \E sig \in Signatures(p) : handle_webhook(w, p, sig)
    /\ delivered' = delivered + 1
    /\ UNCHANGED <<webhook_secret, enable_agents, commits, interactions, cycles,
                   backendUp, registryVars, lifecycleVars, otherVars>>

Receive(w) == ReceiveFrom(w, PayloadIds)

PushPayloadIds == {p \in PayloadIds : Payloads[p].kind = "push"}

ReceivePush(w) == ReceiveFrom(w, PushPayloadIds)

----------------------------------------------------------------------------
(* Interpretation, shared by handle_webhook and process_unprocessed_events *)

Raised_abort_cycle(t) ==
    IF IsWeb(t) THEN Respond(t, "DataStorageError")
    ELSE Set(t, [thr[t] EXCEPT !.pc = "trigger", !.todo = << >>,
                               !.pl = 0, !.ev = 0, !.i = 0])

\* the interpretation of the current event raised: handle_webhook fails, or
\* process_unprocessed_events prints the failure and continues its loop
Raised(t) ==
    IF IsWeb(t) THEN Respond(t, "DataStorageError")
    ELSE Set(t, [thr[t] EXCEPT !.pc = "next_event", !.pl = 0, !.ev = 0, !.i = 0])

\* the interpretation of the current event returned; process_unprocessed_events
\* appends its result to processed_results
Returned(t) ==
    Set(t, [thr[t] EXCEPT !.pc = "mark", !.i = 0,
                          !.n = IF IsWeb(t) THEN 0 ELSE thr[t].n + 1])

CurEntry(t) == Payloads[thr[t].pl].commits[thr[t].i]

handle_push_event_no_skip(t) ==
    /\ thr[t].pc = "push"
    /\ IF thr[t].i > Len(Payloads[thr[t].pl].commits)
       THEN Returned(t)
       ELSE IF ~CurEntry(t).ok
       THEN Raised(t)
       ELSE Set(t, [thr[t] EXCEPT !.pc = "save"])
    /\ UNCHANGED <<webhook_secret, enable_agents, events, commits, interactions, delivered,
                   cycles, backendUp, registryVars, lifecycleVars, otherVars>>

\* handle_push_event, one iteration of the loop up to the existence check:
\* a commit whose hash is stored is skipped, a new one is extracted
handle_push_event(t) ==
    /\ thr[t].pc = "push"
    /\ IF thr[t].i > Len(Payloads[thr[t].pl].commits)
       THEN Returned(t)
       ELSE IF get_commit_by_hash(commits, CurEntry(t).id) # 0
       THEN Set(t, [thr[t] EXCEPT !.i = thr[t].i + 1])
       ELSE IF ~CurEntry(t).ok
       THEN Raised(t)
       ELSE Set(t, [thr[t] EXCEPT !.pc = "save"])
    /\ UNCHANGED <<webhook_secret, enable_agents, events, commits, interactions, delivered,
                   cycles, backendUp, registryVars, lifecycleVars, otherVars>>

PushCheck(t) ==
    /\ t \in WebThreads \cup {Monitor}
    /\ handle_push_event(t)

\* handle_push_event, the save_commit of the loop iteration
PushSave(t) ==
    /\ t \in WebThreads \cup {Monitor}
    /\ thr[t].pc = "save"
    /\ commits' = save_commit(commits, CommitInfo(Payloads[thr[t].pl].repo, CurEntry(t)))
    /\ Set(t, [thr[t] EXCEPT !.pc = "push", !.i = thr[t].i + 1])
    /\ UNCHANGED <<webhook_secret, enable_agents, events, interactions, delivered, cycles,
                   backendUp, registryVars, lifecycleVars, otherVars>>

handle_pull_request_event_upsert(t) ==
    /\ thr[t].pc = "pr"
    /\ events' = save_github_event(events, "pull_request",
                     Payloads[thr[t].pl].repo, Payloads[thr[t].pl].head,
                     thr[t].pl, "pr_info")
    /\ commits' = save_commit(commits,
                     CommitInfo(Payloads[thr[t].pl].repo,
                                Entry(Payloads[thr[t].pl].head, "", "", 0, << >>, TRUE)))
    /\ Returned(t)
    /\ UNCHANGED <<webhook_secret, enable_agents, interactions, delivered, cycles,
                   backendUp, registryVars, lifecycleVars, otherVars>>

\* handle_pull_request_event: reads event_data['repository']['full_name'],
\* which a stored pr_info (whose 'repository' is a string) does not have,
\* then records the pull request with a second save_github_event
handle_pull_request_event(t) ==
    /\ thr[t].pc = "pr"
    /\ IF events[thr[t].ev].shape = "raw"
       THEN /\ events' = save_github_event(events, "pull_request",
                             Payloads[thr[t].pl].repo, Payloads[thr[t].pl].head,
                             thr[t].pl, "pr_info")
            /\ Returned(t)
       ELSE /\ events' = events
            /\ Raised(t)
    /\ UNCHANGED <<webhook_secret, enable_agents, commits, interactions, delivered, cycles,
                   backendUp, registryVars, lifecycleVars, otherVars>>

PullRequest(t) ==
    /\ t \in WebThreads \cup {Monitor}
    /\ handle_pull_request_event(t)

\* mark_event_processed(event_id), then handle_webhook returns (status 200)
\* or process_unprocessed_events goes on to the next event
Mark(t) ==
    /\ t \in WebThreads \cup {Monitor}
    /\ thr[t].pc = "mark"
    /\ events' = mark_event_processed(events, thr[t].ev)
    /\ IF IsWeb(t)
       THEN Set(t, [IdleThread EXCEPT !.status = github_webhook_status("")])
       ELSE Set(t, [thr[t] EXCEPT !.pc = "next_event", !.pl = 0, !.ev = 0])
    /\ UNCHANGED <<webhook_secret, enable_agents, commits, interactions, delivered, cycles,
                   backendUp, registryVars, lifecycleVars, otherVars>>

----------------------------------------------------------------------------
(* Reconciliation: ContinuousMonitor.monitor_cycle / run_once *)

\* process_webhook_events -> process_unprocessed_events: fetch the
\* unprocessed events
CycleStart ==
    /\ thr[Monitor].pc = "idle"
    /\ cycles < MaxCycles
    /\ Set(Monitor, [IdleThread EXCEPT !.pc = "next_event",
                                       !.todo = get_unprocessed_github_events(events)])
    /\ UNCHANGED <<webhook_secret, enable_agents, events, commits, interactions, delivered,
                   cycles, backendUp, registryVars, lifecycleVars, otherVars>>

\* the monitor loop runs on: cycles beyond MaxCycles are not counted
CycleRestart ==
    /\ thr[Monitor].pc = "idle"
    /\ cycles = MaxCycles
    /\ Set(Monitor, [IdleThread EXCEPT !.pc = "next_event",
                                       !.todo = get_unprocessed_github_events(events)])
    /\ UNCHANGED <<webhook_secret, enable_agents, events, commits, interactions, delivered,
                   cycles, backendUp, registryVars, lifecycleVars, otherVars>>

\* process_unprocessed_events: the loop over the fetched events
NextEvent ==
    /\ thr[Monitor].pc = "next_event"
    /\ IF thr[Monitor].todo = << >>
       THEN Set(Monitor, [thr[Monitor] EXCEPT !.pc = "trigger"])
       ELSE LET e == Head(thr[Monitor].todo)
            IN  Set(Monitor, [thr[Monitor] EXCEPT
                                !.pc = Interpret(events[e].event_type),
                                !.todo = Tail(thr[Monitor].todo),
                                !.ev = e, !.pl = events[e].data, !.i = 1])
    /\ UNCHANGED <<webhook_secret, enable_agents, events, commits, interactions, delivered,
                   cycles, backendUp, registryVars, lifecycleVars, otherVars>>

----------------------------------------------------------------------------
(* Agent dispatcher, legacy/agent_orchestrator.py *)

Backends == <<"code_llama", "ollama">>

BackendSet == {Backends[k] : k \in DOMAIN Backends}

InteractionRow(commit_id, agent_type, status) ==
    [commit_id |-> commit_id, agent_type |-> agent_type, status |-> status]

\* INSERT INTO agent_interactions ... RETURNING id
save_agent_interaction(tbl, commit_id, agent_type, status) ==
    Append(tbl, InteractionRow(commit_id, agent_type, status))

\* the commit ids of a set in the order of ORDER BY timestamp_commit DESC
SortDesc(tbl, ids) ==
    CHOOSE s \in [1..Cardinality(ids) -> ids] :
        /\ \A a, b \in DOMAIN s : a # b => s[a] # s[b]
        /\ \A a, b \in DOMAIN s :
              a < b => tbl[s[a]].timestamp_commit >= tbl[s[b]].timestamp_commit

\* SELECT c.* FROM commits c LEFT JOIN agent_interactions ai
\*   ON c.id = ai.commit_id WHERE ai.id IS NULL
Unanalyzed(cs, ias) ==
    {c \in DOMAIN cs : ~\E k \in DOMAIN ias : ias[k].commit_id = c}

\* _trigger_agent_processing: when the query for recent commits without
\* interactions returns rows, process_agent_analysis is started in a new
\* thread.  recent tells whether some of the rows without interactions were
\* logged within the last hour.
NewThread ==
    CHOOSE a \in AnaThreads :
        /\ thr[a].pc = "unborn"
        /\ \A b \in AnaThreads : thr[b].pc = "unborn" => b <= a

trigger_agent_processing(recent) ==
    IF recent /\ Unanalyzed(commits, interactions) # {}
    THEN /\ \E a \in AnaThreads : thr[a].pc = "unborn"
         /\ thr' = [thr EXCEPT ![Monitor] = [IdleThread EXCEPT !.pc = "select"],
                               ![NewThread] = [IdleThread EXCEPT !.pc = "select"]]
    ELSE Set(Monitor, [IdleThread EXCEPT !.pc = "select"])

\* process_webhook_events after process_unprocessed_events returned:
\* "if results: if self.enable_agents: self._trigger_agent_processing()",
\* then monitor_cycle goes on to process_agent_analysis
Trigger ==
    /\ thr[Monitor].pc = "trigger"
    /\ enable_agents
    /\ IF thr[Monitor].n > 0
       THEN \E recent \in BOOLEAN : trigger_agent_processing(recent)
       ELSE Set(Monitor, [IdleThread EXCEPT !.pc = "select"])
    /\ UNCHANGED <<webhook_secret, enable_agents, events, commits, interactions, delivered,
                   cycles, backendUp, registryVars, lifecycleVars, otherVars>>

\* with enable_agents off, process_webhook_events starts no analysis and
\* process_agent_analysis returns 'disabled': the cycle is over
CycleEnd ==
    /\ thr[Monitor].pc = "trigger"
    /\ ~enable_agents
    /\ Set(Monitor, IdleThread)
    /\ cycles' = IF cycles < MaxCycles THEN cycles + 1 ELSE cycles
    /\ UNCHANGED <<webhook_secret, enable_agents, events, commits, interactions, delivered,
                   backendUp, registryVars, lifecycleVars, otherVars>>

\* process_unanalyzed_commits: the query
Select(t) ==
    /\ t \in {Monitor} \cup AnaThreads
    /\ thr[t].pc = "select"
    /\ Set(t, [IdleThread EXCEPT
                  !.pc = "dispatch", !.stage = Backends[1],
                  !.todo = SortDesc(commits, Unanalyzed(commits, interactions))])
    /\ UNCHANGED <<webhook_secret, enable_agents, events, commits, interactions, delivered,
                   cycles, backendUp, registryVars, lifecycleVars, otherVars>>

process_commit_with_agents_abort(t) ==
    LET c == Head(thr[t].todo)
        b == thr[t].stage
        ok == backendUp[b]
    IN  /\ interactions' = save_agent_interaction(interactions, c, b,
                               IF ok THEN "completed" ELSE "failed")
        /\ IF b = Backends[1] /\ ok
           THEN Set(t, [thr[t] EXCEPT !.stage = Backends[2],
                                      !.n = thr[t].n + 1])
           ELSE Set(t, [thr[t] EXCEPT !.stage = Backends[1],
                                      !.todo = Tail(thr[t].todo),
                                      !.n = IF ok THEN thr[t].n + 1 ELSE thr[t].n])

\* process_commit_with_agents, one backend: the analysis call and the
\* save_agent_interaction of its outcome ('completed', or 'failed' from the
\* except branch); the results list grows by the successes only
process_commit_with_agents(t) ==
    LET c == Head(thr[t].todo)
        b == thr[t].stage
        ok == backendUp[b]
    IN  /\ interactions' = save_agent_interaction(interactions, c, b,
                               IF ok THEN "completed" ELSE "failed")
        /\ IF b = Backends[1]
           THEN Set(t, [thr[t] EXCEPT !.stage = Backends[2],
                                      !.n = IF ok THEN thr[t].n + 1 ELSE thr[t].n])
           ELSE Set(t, [thr[t] EXCEPT !.stage = Backends[1],
                                      !.todo = Tail(thr[t].todo),
                                      !.n = IF ok THEN thr[t].n + 1 ELSE thr[t].n])

Dispatch(t) ==
    /\ t \in {Monitor} \cup AnaThreads
    /\ thr[t].pc = "dispatch"
    /\ thr[t].todo # << >>
    /\ process_commit_with_agents(t)
    /\ UNCHANGED <<webhook_secret, enable_agents, events, commits, delivered, cycles,
                   backendUp, registryVars, lifecycleVars, otherVars>>

\* process_agent_analysis returns: the monitor cycle is over, or the spawned
\* thread ends
Finish(t) ==
    /\ t \in {Monitor} \cup AnaThreads
    /\ thr[t].pc = "dispatch"
    /\ thr[t].todo = << >>
    /\ IF t = Monitor
       THEN /\ Set(t, IdleThread)
            /\ cycles' = IF cycles < MaxCycles THEN cycles + 1 ELSE cycles
       ELSE /\ Set(t, [IdleThread EXCEPT !.pc = "finished"])
            /\ cycles' = cycles
    /\ UNCHANGED <<webhook_secret, enable_agents, events, commits, interactions, delivered,
                   backendUp, registryVars, lifecycleVars, otherVars>>

\* the analysis backend becomes reachable or unreachable
BackendChange(b) ==
    /\ backendUp' = [backendUp EXCEPT ![b] = ~backendUp[b]]
    /\ UNCHANGED <<webhook_secret, enable_agents, events, commits, interactions, thr,
                   delivered, cycles, registryVars, lifecycleVars, otherVars>>

----------------------------------------------------------------------------
(* Specifications.  Spec is the webhook server (threaded request handlers) *)
(* next to a monitor started with agents off; SpecAgents is the monitor    *)
(* with agents on next to one request handler that receives pushes.        *)

\* ContinuousMonitor.__init__: not running, no monitor thread
Constructed ==
    /\ running = FALSE
    /\ loop = "unstarted"
    /\ stopper = "idle"
    /\ closed = FALSE

\* after start(): the monitor thread is in _monitor_loop
Started ==
    /\ running = TRUE
    /\ loop = "sleep"
    /\ stopper = "idle"
    /\ closed = FALSE

InitTables ==
    /\ events = << >>
    /\ commits = << >>
    /\ interactions = << >>
    /\ thr = [t \in Threads |->
                 IF t \in AnaThreads THEN [IdleThread EXCEPT !.pc = "unborn"]
                 ELSE IdleThread]
    /\ delivered = 0
    /\ cycles = 0
    /\ repositories = << >>
    /\ lcommits = << >>
    /\ calls = 0
    /\ ret = [op |-> "", owner |-> << >>, name |-> << >>, description |-> "", id |-> 0]
    /\ file = << >>
    /\ saved = << >>
    /\ loaded = [limit |-> << >>, count |-> 0, entries |-> << >>]
    /\ storageUp = TRUE
    /\ conn = [seq |-> 0, pending |-> {}, committed |-> {}, aborted |-> FALSE]
    /\ writer = [t \in WebThreads |-> [pc |-> "idle", id |-> 0]]
    /\ returned = {}
    /\ jobs = 0
    /\ monitors = << >>
    /\ attempts = 0

Init ==
    /\ webhook_secret \in {"", SenderSecret}
    /\ enable_agents = FALSE
    /\ backendUp = [b \in BackendSet |-> TRUE]
    /\ InitTables
    /\ Started

Next ==
    \/ \E w \in WebThreads : Receive(w)
    \/ \E t \in Threads : PushCheck(t)
    \/ \E t \in Threads : PushSave(t)
    \/ \E t \in Threads : PullRequest(t)
    \/ \E t \in Threads : Mark(t)
    \/ CycleStart
    \/ NextEvent
    \/ CycleEnd

Spec == Init /\ [][Next]_vars

InitAgents ==
    /\ webhook_secret = ""
    /\ enable_agents = TRUE
    /\ backendUp \in [BackendSet -> BOOLEAN]
    /\ InitTables
    /\ Started

NextAgents ==
    \/ ReceivePush(1)
    \/ \E t \in Threads : PushCheck(t)
    \/ \E t \in Threads : PushSave(t)
    \/ \E t \in Threads : Mark(t)
    \/ CycleStart
    \/ NextEvent
    \/ Trigger
    \/ \E t \in Threads : Select(t)
    \/ \E t \in Threads : Dispatch(t)
    \/ \E t \in Threads : Finish(t)
    \/ \E b \in BackendSet : BackendChange(b)

SpecAgents == InitAgents /\ [][NextAgents]_vars

\* The monitor loop running for ever (schedule runs monitor_cycle every
\* check_interval seconds while running is true), every started thread and
\* request handler running to its end.
MonitorStep ==
    \/ CycleStart
    \/ CycleRestart
    \/ NextEvent
    \/ Trigger
    \/ PushCheck(Monitor) \/ PushSave(Monitor) \/ Mark(Monitor)
    \/ Select(Monitor) \/ Dispatch(Monitor) \/ Finish(Monitor)

ThreadStep(t) ==
    \/ PushCheck(t) \/ PushSave(t) \/ Mark(t)
    \/ Select(t) \/ Dispatch(t) \/ Finish(t)

NextAgentsLive == NextAgents \/ CycleRestart

SpecAgentsLive ==
    /\ InitAgents
    /\ [][NextAgentsLive]_vars
    /\ WF_vars(MonitorStep)
    /\ \A t \in WebThreads \cup AnaThreads : WF_vars(ThreadStep(t))

\* The webhook server next to a monitor loop that runs for ever with
\* agents off: every request handler runs to its end and the monitor keeps
\* starting cycles.
HandlerStep(t) == PushCheck(t) \/ PushSave(t) \/ PullRequest(t) \/ Mark(t)

MonitorLiveStep ==
    \/ CycleStart
    \/ CycleRestart
    \/ NextEvent
    \/ CycleEnd
    \/ HandlerStep(Monitor)

NextLive == Next \/ CycleRestart

SpecLive ==
    /\ Init
    /\ [][NextLive]_vars
    /\ WF_vars(MonitorLiveStep)
    /\ \A w \in WebThreads : WF_vars(HandlerStep(w))

----------------------------------------------------------------------------
(* Properties of the webhook ingestor and the commit store (Spec) *)

Handlers == WebThreads \cup {Monitor}

RowsOf(h) == {i \in DOMAIN commits : commits[i].commit_hash = h}

\* handler t is at the existence check of a commit entry whose hash is stored
AtStoredEntry(t) ==
    /\ thr[t].pc = "push"
    /\ thr[t].i <= Len(Payloads[thr[t].pl].commits)
    /\ RowsOf(CurEntry(t).id) # {}

\* C3: replaying a push payload never duplicates a commit: there is at most
\* one commit row per (commit hash, repository) in every interleaving of the
\* request handlers and the reconciliation, and once an application of a
\* push payload has completed (its event is marked processed) there is
\* exactly one row for each of its commits.
C3_OneRowPerCommit ==
    /\ \A h \in Hashes : \A r \in Repos :
          Cardinality({i \in RowsOf(h) : commits[i].repository_path = r}) <= 1
    /\ \A e \in DOMAIN events :
          (events[e].processed /\ events[e].event_type = "push") =>
              \A k \in DOMAIN Payloads[events[e].data].commits :
                  Cardinality(RowsOf(Payloads[events[e].data].commits[k].id)) = 1

\* the same payload was delivered twice, both applications completed, and
\* the commit has one row
C3_Witness ==
    \E e1, e2 \in DOMAIN events :
        /\ e1 # e2
        /\ events[e1].data = events[e2].data
        /\ events[e1].event_type = "push"
        /\ events[e1].processed /\ events[e2].processed
        /\ Len(commits) = 1

C5_ProcessedMonotonic ==
    [][\A e \in DOMAIN events :
          events[e].processed => (e \in DOMAIN events' /\ events'[e].processed)]_vars

\* a duplicate delivery of an event that is already processed is in the
\* table, unprocessed, next to the processed one
C5_Witness ==
    \E e1, e2 \in DOMAIN events :
        /\ e1 < e2
        /\ events[e1].data = events[e2].data
        /\ events[e1].shape = events[e2].shape
        /\ events[e1].processed
        /\ ~events[e2].processed

\* C6: with a secret configured, a delivery whose signature does not verify
\* is rejected before any storage write: the step that handles it changes
\* no table and the handler does not go on to interpret the payload.  Both
\* directions are stated: a rejection writes nothing, and a delivery whose
\* header differs from the HMAC of its body under the secret is a rejection.
C6_RejectBeforeWrite ==
    [][\A w \in WebThreads :
          /\ (thr[w].pc = "idle" /\ thr'[w] # thr[w] /\ ~thr'[w].auth) =>
                /\ webhook_secret # ""
                /\ events' = events
                /\ commits' = commits
                /\ interactions' = interactions
                /\ thr'[w].pc = "idle"
                /\ thr'[w].status # 200
          /\ \A p \in PayloadIds : \A sig \in Signatures(p) :
                (/\ webhook_secret # ""
                 /\ sig # Hmac(webhook_secret, p)
                 /\ thr[w].pc = "idle"
                 /\ delivered' = delivered + 1
                 /\ handle_webhook(w, p, sig)) =>
                    /\ ~thr'[w].auth
                    /\ events' = events
                    /\ commits' = commits
                    /\ interactions' = interactions
                    /\ thr'[w].pc = "idle"]_vars

\* a delivery was rejected for its signature and no table has a row
C6_Witness ==
    /\ webhook_secret # ""
    /\ delivered > 0
    /\ \E w \in WebThreads : thr[w].pc = "idle" /\ ~thr[w].auth
    /\ events = << >> /\ commits = << >> /\ interactions = << >>

\* C7 as claimed: a delivery rejected for its signature is answered with 401.
C7_Rejected401 ==
    \A w \in WebThreads :
        (thr[w].pc = "idle" /\ ~thr[w].auth) => thr[w].status = 401

----------------------------------------------------------------------------
(* Properties of the reconciliation and the agent dispatcher (SpecAgents) *)

Analysts == {Monitor} \cup AnaThreads

InteractionsOf(c, b, status) ==
    {k \in DOMAIN interactions : /\ interactions[k].commit_id = c
                                 /\ interactions[k].agent_type = b
                                 /\ interactions[k].status = status}

RecordsOf(c, b) == InteractionsOf(c, b, "completed") \cup InteractionsOf(c, b, "failed")

Completed(c, b) == InteractionsOf(c, b, "completed") # {}

FailedOnly(c, b) == InteractionsOf(c, b, "failed") # {} /\ ~Completed(c, b)

SeqRange(s) == {s[k] : k \in DOMAIN s}

CommitIds == 1..Cardinality(Hashes)

\* C1 as claimed: no commit has more than one 'completed' interaction for
\* the same backend.
C1_AnalyzedOnce ==
    \A c \in DOMAIN commits : \A b \in BackendSet :
        Cardinality(InteractionsOf(c, b, "completed")) <= 1

\* C2 as claimed: if the backends are reachable from some point on, every
\* stored commit eventually has a 'completed' interaction of each backend.
C2_EventuallyAnalyzed ==
    (<>[](\A b \in BackendSet : backendUp[b])) =>
        \A c \in CommitIds : \A b \in BackendSet :
            [](c \in DOMAIN commits => <>Completed(c, b))

\* the analysts that are dispatching commit c and have recorded the first
\* backend's outcome but not yet the second's
MidDispatch(c) ==
    {t \in Analysts : /\ thr[t].pc = "dispatch"
                      /\ thr[t].todo # << >>
                      /\ Head(thr[t].todo) = c
                      /\ thr[t].stage = Backends[2]}

\* C8: a dispatch records one interaction per backend, 'completed' for a
\* backend that succeeds and 'failed' for one that fails, and the first
\* backend's failure never keeps the second from being invoked and recorded:
\* every record of the first backend is matched by a record of the second
\* as soon as the dispatch that wrote it is over.
C8_PartialFailureIsolation ==
    /\ [](\A c \in DOMAIN commits :
            Cardinality(RecordsOf(c, Backends[1])) =
                Cardinality(RecordsOf(c, Backends[2])) + Cardinality(MidDispatch(c)))
    /\ [][\A t \in Analysts :
            (thr[t].pc = "dispatch" /\ thr[t].todo # << >> /\ thr'[t] # thr[t]) =>
                LET c == Head(thr[t].todo)
                    b == thr[t].stage
                IN  /\ interactions' = Append(interactions,
                           InteractionRow(c, b, IF backendUp[b] THEN "completed"
                                                ELSE "failed"))
                    /\ b = Backends[1] =>
                           /\ thr'[t].pc = "dispatch"
                           /\ thr'[t].todo = thr[t].todo
                           /\ thr'[t].stage = Backends[2]]_vars

\* a commit was dispatched while the first backend failed and the second
\* succeeded: it has one 'failed' and one 'completed' interaction
C8_Witness ==
    \E c \in DOMAIN commits :
        /\ Cardinality(InteractionsOf(c, Backends[1], "failed")) = 1
        /\ Cardinality(InteractionsOf(c, Backends[2], "completed")) = 1
        /\ InteractionsOf(c, Backends[1], "completed") = {}
        /\ InteractionsOf(c, Backends[2], "failed") = {}
        /\ MidDispatch(c) = {}

\* C9 as claimed: the selection process_unanalyzed_commits makes in a monitor
\* cycle contains every commit that has only 'failed' interactions for some
\* backend.
C9_FailedSelectedAgain ==
    [][(thr[Monitor].pc = "select" /\ thr'[Monitor].pc = "dispatch") =>
          \A c \in DOMAIN commits :
              (\E b \in BackendSet : FailedOnly(c, b)) =>
                  c \in SeqRange(thr'[Monitor].todo)]_vars

----------------------------------------------------------------------------
(* Repository registry, legacy/repository_manager.py and                   *)
(* legacy/database_service.py.  Owner and repository names are strings,    *)
(* written as sequences of tokens so that f"{owner}/{name}" is a           *)
(* concatenation.                                                          *)

Owners == {<<"x">>, <<"y">>}
Names == {<<"r1">>, <<"r2">>}
Descriptions == {"v1", "v2"}

PracticeRepo == <<"Practice_Repo">>

FullName(owner, name) == owner \o <<"/">> \o name

RepoRow(owner, name, description) ==
    [name |-> name, owner |-> owner, full_name |-> FullName(owner, name),
     description |-> description]

\* the id of the row with this full_name, 0 when there is none
RepoByFullName(tbl, full_name) ==
    IF \E i \in DOMAIN tbl : tbl[i].full_name = full_name
    THEN CHOOSE i \in DOMAIN tbl : tbl[i].full_name = full_name
    ELSE 0

register_repository_insert_only(tbl, owner, name, description) ==
    Append(tbl, RepoRow(owner, name, description))

\* INSERT INTO repositories ... ON CONFLICT (full_name) DO UPDATE SET
\* description, language, is_private = EXCLUDED.* RETURNING id
\* (description stands for the three columns, which are written alike)
register_repository(tbl, owner, name, description) ==
    LET i == RepoByFullName(tbl, FullName(owner, name))
    IN  IF i = 0 THEN Append(tbl, RepoRow(owner, name, description))
        ELSE [tbl EXCEPT ![i].description = description]

\* INSERT INTO repositories ... ON CONFLICT (full_name) DO UPDATE SET
\* updated_at = CURRENT_TIMESTAMP RETURNING id  (description NULL on insert)
ensure_repository_row(tbl, owner, name) ==
    IF RepoByFullName(tbl, FullName(owner, name)) = 0
    THEN Append(tbl, RepoRow(owner, name, ""))
    ELSE tbl

\* UPDATE commits SET repository_id = %s
\*   WHERE repository_name = %s AND repository_id IS NULL   (0 stands for NULL)
backfill(ctbl, repo_id, name) ==
    [i \in DOMAIN ctbl |->
        IF ctbl[i].repository_name = name /\ ctbl[i].repository_id = 0
        THEN [ctbl[i] EXCEPT !.repository_id = repo_id]
        ELSE ctbl[i]]

\* legacy save_commit: INSERT ... ON CONFLICT (commit_hash, repository_id)
\* DO UPDATE SET author, ..., repository_name, ... = EXCLUDED.*
legacy_save_commit(ctbl, data) ==
    LET same == {i \in DOMAIN ctbl : /\ ctbl[i].commit_hash = data.commit_hash
                                     /\ ctbl[i].repository_id = data.repository_id
                                     /\ data.repository_id # 0}
    IN  IF same = {} THEN Append(ctbl, data)
        ELSE [i \in DOMAIN ctbl |-> IF i \in same THEN data ELSE ctbl[i]]

get_repository_commits_by_owner(rtbl, ctbl, repo_owner, repo_name) ==
    {c \in DOMAIN ctbl :
        \/ /\ ctbl[c].repository_id # 0
           /\ rtbl[ctbl[c].repository_id].owner = repo_owner
        \/ /\ ctbl[c].repository_name = repo_name
           /\ ctbl[c].repository_name # PracticeRepo}

\* SELECT c.* FROM commits c LEFT JOIN repositories r ON c.repository_id = r.id
\*   WHERE (r.owner = %s AND r.name = %s)
\*      OR (c.repository_name = %s AND c.repository_name != 'Practice_Repo')
\* (LIMIT only drops rows from this result)
get_repository_commits(rtbl, ctbl, repo_owner, repo_name) ==
    {c \in DOMAIN ctbl :
        \/ /\ ctbl[c].repository_id # 0
           /\ rtbl[ctbl[c].repository_id].owner = repo_owner
           /\ rtbl[ctbl[c].repository_id].name = repo_name
        \/ /\ ctbl[c].repository_name = repo_name
           /\ ctbl[c].repository_name # PracticeRepo}

RegistryUnchanged ==
    UNCHANGED <<webhook_secret, enable_agents, events, commits, interactions,
                thr, delivered, cycles, backendUp, lifecycleVars, otherVars>>

\* UNIQUE(commit_hash, repository_id); rows whose repository_id is NULL
\* never conflict
UniqueCommits(ctbl) ==
    \A i, j \in DOMAIN ctbl :
        (/\ i # j
         /\ ctbl[i].commit_hash = ctbl[j].commit_hash
         /\ ctbl[i].repository_id = ctbl[j].repository_id) => ctbl[i].repository_id = 0

\* DatabaseService.ensure_repository_isolation: the upsert of the repository
\* row, the UPDATE of the unlinked commits, then commit; when the UPDATE
\* violates the UNIQUE constraint the transaction is rolled back and
\* DataStorageError is raised (id 0)
ensure_repository_isolation(rtbl, ctbl, owner, name) ==
    LET rows == ensure_repository_row(rtbl, owner, name)
        repo_id == RepoByFullName(rows, FullName(owner, name))
        linked == backfill(ctbl, repo_id, name)
    IN  IF UniqueCommits(linked)
        THEN [repositories |-> rows, commits |-> linked, id |-> repo_id]
        ELSE [repositories |-> rtbl, commits |-> ctbl, id |-> 0]

Called(op, owner, name, description, id) ==
    /\ calls' = calls + 1
    /\ ret' = [op |-> op, owner |-> owner, name |-> name,
               description |-> description, id |-> id]

\* RepositoryManager.register_repository
RegisterRepository ==
    /\ calls < MaxCalls
    /\ \E o \in Owners, n \in Names, d \in Descriptions :
          /\ repositories' = register_repository(repositories, o, n, d)
          /\ Called("register_repository", o, n, d,
                    RepoByFullName(repositories', FullName(o, n)))
    /\ lcommits' = lcommits
    /\ RegistryUnchanged

\* RepositoryManager.ensure_repository_isolation ->
\* DatabaseService.ensure_repository_isolation
EnsureRepositoryIsolation ==
    /\ calls < MaxCalls
    /\ \E o \in Owners, n \in Names :
          LET e == ensure_repository_isolation(repositories, lcommits, o, n)
          IN  /\ repositories' = e.repositories
              /\ lcommits' = e.commits
              /\ Called("ensure_repository_isolation", o, n, "", e.id)
    /\ RegistryUnchanged

\* RepositoryManager.save_commit_with_repository; saved_for records the
\* (owner, repo_name) the commit was saved for and is read by no operation
SaveCommitWithRepository ==
    /\ calls < MaxCalls
    /\ \E o \in Owners, n \in Names, h \in Hashes :
          LET e == ensure_repository_isolation(repositories, lcommits, o, n)
          IN  /\ repositories' = e.repositories
              /\ lcommits' =
                    IF e.id = 0 THEN lcommits
                    ELSE legacy_save_commit(e.commits,
                             [commit_hash |-> h, repository_id |-> e.id,
                              repository_name |-> n, saved_for |-> <<o, n>>])
              /\ Called("save_commit_with_repository", o, n, "", e.id)
    /\ RegistryUnchanged

\* DatabaseService.save_commit called with the commit of repository
\* owner/name and no repository_id (the commit fetchers and data loaders
\* that set repository_name only): the row is unlinked
SaveCommit ==
    /\ calls < MaxCalls
    /\ \E o \in Owners, n \in Names, h \in Hashes :
          /\ lcommits' = legacy_save_commit(lcommits,
                             [commit_hash |-> h, repository_id |-> 0,
                              repository_name |-> n, saved_for |-> <<o, n>>])
          /\ Called("save_commit", o, n, "", Len(lcommits'))
    /\ repositories' = repositories
    /\ RegistryUnchanged

InitRegistry ==
    /\ webhook_secret = ""
    /\ enable_agents = FALSE
    /\ backendUp = [b \in BackendSet |-> TRUE]
    /\ InitTables
    /\ Constructed

NextRegistry ==
    \/ RegisterRepository
    \/ EnsureRepositoryIsolation
    \/ SaveCommitWithRepository
    \/ SaveCommit

SpecRegistry == InitRegistry /\ [][NextRegistry]_vars

\* C10: a commit saved for repository (owner, r1) is never in the result of
\* get_repository_commits(owner, r2) for another name r2 of the same owner.
C10_SameOwnerIsolation ==
    \A c \in DOMAIN lcommits : \A n \in Names :
        n # lcommits[c].saved_for[2] =>
            c \notin get_repository_commits(repositories, lcommits,
                                            lcommits[c].saved_for[1], n)

\* one owner has commits in two repositories and the query for each returns
\* its own commit and not the other's
C10_Witness ==
    \E c1, c2 \in DOMAIN lcommits :
        /\ lcommits[c1].saved_for = << <<"x">>, <<"r1">> >>
        /\ lcommits[c2].saved_for = << <<"x">>, <<"r2">> >>
        /\ c2 \in get_repository_commits(repositories, lcommits, <<"x">>, <<"r2">>)
        /\ c1 \notin get_repository_commits(repositories, lcommits, <<"x">>, <<"r2">>)
        /\ c1 \in get_repository_commits(repositories, lcommits, <<"x">>, <<"r1">>)

----------------------------------------------------------------------------
(* Properties of the repository registry (SpecRegistry), continued *)

\* the registry call op was made in this step
CallOf(op) == calls' = calls + 1 /\ ret'.op = op

RepoRowsOf(tbl, owner, name) ==
    {i \in DOMAIN tbl : tbl[i].owner = owner /\ tbl[i].name = name}

\* C11 as claimed: a commit saved for one (owner, name) is never in the
\* result of get_repository_commits for a different (owner, name), two owners
\* with a repository of the same name included.
C11_CrossOwnerIsolation ==
    \A c \in DOMAIN lcommits : \A o \in Owners : \A n \in Names :
        <<o, n>> # lcommits[c].saved_for =>
            c \notin get_repository_commits(repositories, lcommits, o, n)

C19_BackfillFrame ==
    [][(CallOf("ensure_repository_isolation") /\ ret'.id # 0) =>
          /\ Len(lcommits') = Len(lcommits)
          /\ \A c \in DOMAIN lcommits :
                lcommits'[c] =
                    IF /\ lcommits[c].repository_id = 0
                       /\ lcommits[c].saved_for = <<ret'.owner, ret'.name>>
                    THEN [lcommits[c] EXCEPT !.repository_id = ret'.id]
                    ELSE lcommits[c]]_vars

----------------------------------------------------------------------------
(* Properties of the webhook ingestor and the commit store (Spec), continued *)

\* the commit rows with this hash recorded for this repository
RowsOfRepo(tbl, h, r) ==
    {i \in DOMAIN tbl : tbl[i].commit_hash = h /\ tbl[i].repository_path = r}

\* handler t is at a commit entry of its payload
AtEntry(t) ==
    /\ thr[t].pc = "push"
    /\ thr[t].i <= Len(Payloads[thr[t].pl].commits)

\* C13 as claimed: commit identity is per repository on the push path.  A
\* well-formed commit of a push for repository R that has no row for R is
\* not skipped; and the save of a commit for R leaves a row for (hash, R)
\* and changes no row recorded for another repository.
C13_PerRepositoryIdentity ==
    [][\A t \in Handlers :
          /\ (/\ AtEntry(t)
              /\ CurEntry(t).ok
              /\ RowsOfRepo(commits, CurEntry(t).id, Payloads[thr[t].pl].repo) = {}
              /\ thr'[t] # thr[t]) => thr'[t].pc = "save"
          /\ (thr[t].pc = "save" /\ thr'[t] # thr[t]) =>
                /\ RowsOfRepo(commits', CurEntry(t).id, Payloads[thr[t].pl].repo) # {}
                /\ \A i \in DOMAIN commits :
                      commits[i].repository_path # Payloads[thr[t].pl].repo =>
                          commits'[i] = commits[i]]_vars

\* C14: an accepted delivery is stored as an event row with processed =
\* FALSE in the step that accepts it, before the handler interprets the
\* payload; when the interpretation raises and handle_webhook fails, the row
\* is there with processed = FALSE; and the flag of a row becomes TRUE only
\* in mark_event_processed of a handler whose interpretation of that event
\* returned.
C14_DurableReceipt ==
    [][/\ \A w \in WebThreads :
            /\ (thr[w].pc = "idle" /\ thr'[w].pc # "idle") =>
                  /\ Len(events') = Len(events) + 1
                  /\ \A e \in DOMAIN events : events'[e] = events[e]
                  /\ thr'[w].ev = Len(events')
                  /\ ~events'[thr'[w].ev].processed
                  /\ events'[thr'[w].ev].data = thr'[w].pl
                  /\ commits' = commits
            /\ (thr[w].pc \in {"push", "pr"} /\ thr'[w].pc = "idle") =>
                  /\ thr'[w].status = 500
                  /\ thr[w].ev \in DOMAIN events'
                  /\ ~events'[thr[w].ev].processed
       /\ \A e \in DOMAIN events :
            (~events[e].processed /\ events'[e].processed) =>
                \E t \in Handlers : /\ thr[t].pc = "mark"
                                    /\ thr[t].ev = e
                                    /\ thr'[t] # thr[t]]_vars

\* the interpretation of an accepted push raised after one of its commits
\* was stored: handle_webhook failed and the event row is unprocessed
C14_Witness ==
    \E w \in WebThreads : \E e \in DOMAIN events :
        /\ thr[w].pc = "idle" /\ thr[w].auth /\ thr[w].status = 500
        /\ events[e].event_type = "push"
        /\ ~events[e].processed
        /\ RowsOfRepo(commits, "deadbeef", events[e].repository) # {}

\* the replay of event e raises: a push with a commit entry that cannot be
\* extracted (its hash is never stored), or a stored pr_info
ReplayFails(e) ==
    \/ /\ events[e].event_type = "push"
       /\ \E k \in DOMAIN Payloads[events[e].data].commits :
             ~Payloads[events[e].data].commits[k].ok
    \/ events[e].shape = "pr_info"

\* the monitor is replaying an event of the list it fetched
Replaying == thr[Monitor].pc \in {"push", "save", "pr", "mark"}

\* C15: in process_unprocessed_events a replay that raises leaves the rest
\* of the fetched list in place and the failing row unmarked, the loop takes
\* the fetched events one by one until none is left, and a replay that
\* returns is followed by mark_event_processed.  Hence every event that
\* precedes the one being replayed is processed unless its own replay fails.
C15_EventIsolation ==
    /\ [](Replaying =>
             \A e \in DOMAIN events :
                 e < thr[Monitor].ev => (events[e].processed \/ ReplayFails(e)))
    /\ [][/\ (/\ thr[Monitor].pc \in {"push", "pr"}
              /\ thr'[Monitor] # thr[Monitor]
              /\ ~(thr'[Monitor].pc \in {"push", "save", "mark"})) =>
                /\ thr'[Monitor].pc = "next_event"
                /\ thr'[Monitor].todo = thr[Monitor].todo
                /\ events' = events
                /\ ~events'[thr[Monitor].ev].processed
          /\ (thr[Monitor].pc = "next_event" /\ thr'[Monitor] # thr[Monitor]) =>
                IF thr[Monitor].todo = << >>
                THEN ~(thr'[Monitor].pc \in {"push", "save", "pr", "mark"})
                ELSE /\ thr'[Monitor].ev = Head(thr[Monitor].todo)
                     /\ thr'[Monitor].todo = Tail(thr[Monitor].todo)
                     /\ thr'[Monitor].pc \in {"push", "pr", "mark"}
          /\ (thr[Monitor].pc = "mark" /\ thr'[Monitor] # thr[Monitor]) =>
                /\ events'[thr[Monitor].ev].processed
                /\ thr'[Monitor].todo = thr[Monitor].todo
                /\ thr'[Monitor].pc = "next_event"]_vars

\* in one cycle the replay of an event failed, the event is unprocessed, and
\* the replay of a later event of the fetched list has returned
C15_Witness ==
    /\ thr[Monitor].pc = "mark"
    /\ \E e \in DOMAIN events :
          /\ e < thr[Monitor].ev
          /\ ReplayFails(e)
          /\ ~events[e].processed

\* the deliveries whose payload is a well-formed push or pull_request
WellFormed ==
    {p \in PayloadIds :
        /\ Payloads[p].kind \in {"push", "pull_request"}
        /\ \A k \in DOMAIN Payloads[p].commits : Payloads[p].commits[k].ok}

\* a delivery leaves its event row, and each interpretation of a
\* pull_request (by the request handler, by a concurrent replay) one more
EventIds == 1..(3 * MaxDeliveries)

\* C16 as claimed: with the monitor loop running for ever, every event row
\* created while handling a well-formed push or pull_request delivery
\* eventually has processed = TRUE.
C16_EventuallyProcessed ==
    \A e \in EventIds :
        []((e \in DOMAIN events /\ events[e].data \in WellFormed) =>
              <>(e \in DOMAIN events /\ events[e].processed))

\* C17 as claimed: when the interpretation of a push payload by
\* handle_push_event is over, every well-formed commit entry of the payload
\* is stored, whether it stands before or after a malformed entry.
C17_MalformedCommitIsolation ==
    [][\A t \in Handlers :
          (thr[t].pc = "push" /\ ~(thr'[t].pc \in {"push", "save"})) =>
              \A k \in DOMAIN Payloads[thr[t].pl].commits :
                  Payloads[thr[t].pl].commits[k].ok =>
                      \E i \in DOMAIN commits' :
                          commits'[i].commit_hash = Payloads[thr[t].pl].commits[k].id]_vars

\* handler t is handling a pull_request
OnPullRequest(t) == thr[t].pl # 0 /\ Payloads[thr[t].pl].kind = "pull_request"

\* C18: handling a pull_request delivery records the event with the head
\* commit hash of the pull request (the row of the delivery, and the row
\* handle_pull_request_event adds) and no step of the handling, from the
\* receipt to mark_event_processed, changes the commits table.
C18_PullRequestFrame ==
    [][\A t \in Handlers :
          /\ (thr[t].pc = "idle" /\ thr'[t].pc = "pr" /\ IsWeb(t)) =>
                /\ commits' = commits
                /\ Len(events') = Len(events) + 1
                /\ events'[Len(events')].event_type = "pull_request"
                /\ events'[Len(events')].commit_hash = Payloads[thr'[t].pl].head
          /\ (thr[t].pc = "pr" /\ thr'[t].pc = "mark") =>
                /\ commits' = commits
                /\ Len(events') = Len(events) + 1
                /\ events'[Len(events')].event_type = "pull_request"
                /\ events'[Len(events')].commit_hash = Payloads[thr[t].pl].head
                /\ events'[Len(events')].repository = Payloads[thr[t].pl].repo
          /\ (OnPullRequest(t) /\ thr'[t] # thr[t]) => commits' = commits]_vars

\* a pull_request delivery was handled to the end: its event row is
\* processed and carries the head commit hash, the pull request is recorded,
\* and the commit it references has no commit row
C18_Witness ==
    /\ commits = << >>
    /\ \E e1, e2 \in DOMAIN events :
          /\ events[e1].event_type = "pull_request" /\ events[e1].shape = "raw"
          /\ events[e1].processed
          /\ events[e1].commit_hash = "deadbeef"
          /\ events[e2].shape = "pr_info"
          /\ events[e2].commit_hash = "deadbeef"

----------------------------------------------------------------------------
(* Lifecycle of the monitor: ContinuousMonitor.start, _monitor_loop, stop. *)
(* The monitor runs with agents off next to a webhook server (request      *)
(* thread 1, with a storage connection of its own) that keeps storing      *)
(* events.  Time is not modelled: a due job and the timeout of join are    *)
(* choices.                                                                *)

tablesAndThreads == <<webhook_secret, enable_agents, events, commits, interactions, thr,
                      delivered, cycles, backendUp, registryVars, otherVars>>

\* start(): "if self.running: return", else running = True and the monitor
\* thread is started
Start ==
    /\ ~running
    /\ loop = "unstarted"
    /\ running' = TRUE
    /\ loop' = "test"
    /\ UNCHANGED <<stopper, closed, tablesAndThreads>>

monitor_loop_test_always(flag) == "run"

\* _monitor_loop: "while self.running:"
monitor_loop_test(flag) == IF flag THEN "run" ELSE "dead"

LoopTest ==
    /\ loop = "test"
    /\ loop' = monitor_loop_test(running)
    /\ UNCHANGED <<running, stopper, closed, tablesAndThreads>>

\* _monitor_loop: schedule.run_pending() runs monitor_cycle when it is due;
\* the cycle begins with process_unprocessed_events fetching the unprocessed
\* events, which raises at once on a closed connection
LoopRun ==
    /\ loop = "run"
    /\ \E due \in BOOLEAN :
          IF due
          THEN /\ loop' = "cycle"
               /\ IF closed THEN thr' = thr
                  ELSE Set(Monitor, [IdleThread EXCEPT !.pc = "next_event",
                                        !.todo = get_unprocessed_github_events(events)])
          ELSE /\ loop' = "sleep"
               /\ thr' = thr
    /\ UNCHANGED <<running, stopper, closed, webhook_secret, enable_agents, events,
                   commits, interactions, delivered, cycles, backendUp, registryVars, otherVars>>

\* monitor_cycle returned to run_pending
LoopCycleDone ==
    /\ loop = "cycle"
    /\ thr[Monitor].pc = "idle"
    /\ loop' = "sleep"
    /\ UNCHANGED <<running, stopper, closed, tablesAndThreads>>

\* _monitor_loop: time.sleep(1), then the loop condition again
LoopSleep ==
    /\ loop = "sleep"
    /\ loop' = "test"
    /\ UNCHANGED <<running, stopper, closed, tablesAndThreads>>

\* on a closed connection every storage call of the rest of the cycle
\* raises and is caught (per event, then in process_webhook_events and
\* process_agent_analysis): the cycle ends without another write
CycleAbandon ==
    /\ closed
    /\ thr[Monitor].pc # "idle"
    /\ Set(Monitor, IdleThread)
    /\ cycles' = IF cycles < MaxCycles THEN cycles + 1 ELSE cycles
    /\ UNCHANGED <<webhook_secret, enable_agents, events, commits, interactions,
                   delivered, backendUp, registryVars, lifecycleVars, otherVars>>

\* the steps of a monitor cycle on an open connection
CycleStep ==
    /\ ~closed
    /\ \/ NextEvent
       \/ PushCheck(Monitor) \/ PushSave(Monitor)
       \/ PullRequest(Monitor) \/ Mark(Monitor)
       \/ CycleEnd

\* stop(): "if not self.running: return", else running = False
StopCall ==
    /\ stopper = "idle"
    /\ running
    /\ running' = FALSE
    /\ stopper' = "join"
    /\ UNCHANGED <<loop, closed, tablesAndThreads>>

\* stop(): monitor_thread.join(timeout=5) returns when the thread has ended
\* or when the timeout has passed
StopJoin ==
    /\ stopper = "join"
    /\ \E timeout \in BOOLEAN : timeout \/ loop = "dead"
    /\ stopper' = "close"
    /\ UNCHANGED <<running, loop, closed, tablesAndThreads>>

\* stop(): db.close(), webhook_handler.close(), agent_orchestrator.close()
StopClose ==
    /\ stopper = "close"
    /\ closed' = TRUE
    /\ stopper' = "done"
    /\ UNCHANGED <<running, loop, tablesAndThreads>>

InitStop ==
    /\ webhook_secret = ""
    /\ enable_agents = FALSE
    /\ backendUp = [b \in BackendSet |-> TRUE]
    /\ InitTables
    /\ Constructed

LoopStep == LoopTest \/ LoopRun \/ LoopCycleDone \/ LoopSleep

StopStep == StopJoin \/ StopClose

NextStop ==
    \/ Start
    \/ LoopTest
    \/ LoopRun
    \/ LoopCycleDone
    \/ LoopSleep
    \/ CycleStep
    \/ CycleAbandon
    \/ StopCall
    \/ StopJoin
    \/ StopClose
    \/ Receive(1)
    \/ HandlerStep(1)

\* every thread that was started runs on: the monitor thread, the cycle it
\* is in, and the caller of stop()
SpecStop ==
    /\ InitStop
    /\ [][NextStop]_vars
    /\ WF_vars(LoopStep)
    /\ WF_vars(CycleStep)
    /\ WF_vars(CycleAbandon)
    /\ WF_vars(StopStep)

StopCalled == stopper # "idle"

----------------------------------------------------------------------------
(* The JSONL storage of the commit tracker: legacy/data_storage.py.  A     *)
(* line of the file is the JSON text of an entry's dictionary; timestamps  *)
(* are written in ISO format and parsed back on load.                      *)

Times == {1, 2}

\* CommitEntry.__init__ (the fields that tell entries apart; id is the uuid)
CommitEntry(entry_id, commit_hash, timestamp_commit) ==
    [id |-> entry_id, commit_hash |-> commit_hash, timestamp_commit |-> timestamp_commit]

\* datetime.isoformat and datetime.fromisoformat
isoformat(t) == <<"iso", t>>
fromisoformat(text) == text[2]

\* CommitEntry.to_dict
to_dict(entry) ==
    [id |-> entry.id, commit_hash |-> entry.commit_hash,
     timestamp_commit |-> isoformat(entry.timestamp_commit)]

\* CommitEntry.from_dict
from_dict(data) ==
    CommitEntry(data.id, data.commit_hash, fromisoformat(data.timestamp_commit))

\* json.dumps(...) + '\n' and json.loads of a stripped line
json_dumps(data) == <<"json", data>>
json_loads(line) == line[2]

\* load_commits skips a line that is blank or that json.loads or
\* fromisoformat rejects
Parses(line) ==
    /\ Len(line) = 2
    /\ line[1] = "json"
    /\ line[2].timestamp_commit[1] = "iso"

\* "if limit": None and 0 are false
Truthy(limit) == limit # << >> /\ limit[1] # 0

RECURSIVE load_from(_, _, _, _)
\* the loop of load_commits over the lines of the file, from line k on
load_from(lines, k, entries, limit) ==
    IF k > Len(lines) THEN entries
    ELSE IF Truthy(limit) /\ Len(entries) >= limit[1] THEN entries
    ELSE load_from(lines, k + 1,
                   IF Parses(lines[k])
                   THEN Append(entries, from_dict(json_loads(lines[k])))
                   ELSE entries,
                   limit)

\* DataStorageService.load_commits; a missing file is the empty sequence
load_commits(lines, limit) == load_from(lines, 1, << >>, limit)

\* a limit is None (<< >>) or a number
Limits == {<< >>} \cup {<<n>> : n \in 0..(MaxCalls + 1)}

\* DataStorageService.save_commit: a new entry is appended to the file
AppendCommit ==
    /\ Len(file) < MaxCalls
    /\ \E commit_hash \in Hashes, timestamp_commit \in Times :
         LET entry == CommitEntry(Len(saved) + 1, commit_hash, timestamp_commit)
         IN  /\ file' = Append(file, json_dumps(to_dict(entry)))
             /\ saved' = Append(saved, entry)
    /\ UNCHANGED <<loaded, storageUp, connVars, restartVars, serverVars>>

\* a call of DataStorageService.load_commits(limit)
LoadCommits ==
    /\ \E limit \in Limits :
         loaded' = [limit |-> limit, count |-> Len(saved),
                    entries |-> load_commits(file, limit)]
    /\ UNCHANGED <<file, saved, storageUp, connVars, restartVars, serverVars>>

InitStorage ==
    /\ webhook_secret = ""
    /\ enable_agents = FALSE
    /\ backendUp = [b \in BackendSet |-> TRUE]
    /\ InitTables
    /\ Constructed

NextStorage ==
    \/ AppendCommit
    \/ LoadCommits

SpecStorage == InitStorage /\ [][NextStorage]_vars

Min(a, b) == IF a < b THEN a ELSE b

\* C21: load_commits returns the saved entries in the order in which
\* save_commit appended them, and load_commits(limit=n) returns the first
\* min(n, count) of them.
C21_LoadReturnsPrefix ==
    loaded.entries =
        SubSeq(saved, 1, IF loaded.limit = << >> THEN loaded.count
                         ELSE Min(loaded.limit[1], loaded.count))

----------------------------------------------------------------------------
(* The push path and the repository registry *)

\* repository.full_name of a delivery, as the registry writes full names
RepoTokens(repository) ==
    CASE repository = "acme/widgets" -> FullName(<<"acme">>, <<"widgets">>)
      [] repository = "acme/gadgets" -> FullName(<<"acme">>, <<"gadgets">>)
      [] OTHER -> << >>

\* C22: the registry is consulted before a commit is written on the push
\* path: once a push event for repository R has been processed, a
\* repository row for R exists (to which the commit rows written for the
\* push are linked).
C22_RegistryBeforeCommit ==
    \A e \in DOMAIN events :
        (events[e].event_type = "push" /\ events[e].processed) =>
            \E r \in DOMAIN repositories :
                repositories[r].full_name = RepoTokens(events[e].repository)

----------------------------------------------------------------------------
(* The agent dispatcher over the commits table of the legacy schema, whose *)
(* repository_id is nullable (0 stands for NULL).                          *)

RECURSIVE analyze_commits(_, _)
\* the loop of process_unanalyzed_commits: process_commit_with_agents saves
\* one interaction per backend for each selected commit
analyze_commits(ias, todo) ==
    IF todo = << >> THEN ias
    ELSE LET c == Head(todo)
             first == save_agent_interaction(ias, c, Backends[1],
                          IF backendUp[Backends[1]] THEN "completed" ELSE "failed")
             second == save_agent_interaction(first, c, Backends[2],
                          IF backendUp[Backends[2]] THEN "completed" ELSE "failed")
         IN  analyze_commits(second, Tail(todo))

\* the rows of the query of process_unanalyzed_commits (the legacy rows of
\* the model carry no timestamp_commit: the order is that of the ids)
SelectedCommits(ctbl, ias) ==
    LET ids == Unanalyzed(ctbl, ias)
    IN  CHOOSE s \in [1..Cardinality(ids) -> ids] :
            \A a, b \in DOMAIN s : a < b => s[a] < s[b]

\* AgentOrchestrator.process_unanalyzed_commits, a whole call
ProcessUnanalyzedCommits ==
    /\ calls < MaxCalls
    /\ LET todo == SelectedCommits(lcommits, interactions)
       IN  /\ interactions' = analyze_commits(interactions, todo)
           /\ Called("process_unanalyzed_commits", << >>, << >>, "", Len(todo))
    /\ UNCHANGED <<webhook_secret, enable_agents, events, commits, thr, delivered, cycles,
                   backendUp, repositories, lcommits, lifecycleVars, otherVars>>

NextAnalysis ==
    \/ SaveCommit
    \/ SaveCommitWithRepository
    \/ EnsureRepositoryIsolation
    \/ ProcessUnanalyzedCommits

SpecAnalysis == InitRegistry /\ [][NextAnalysis]_vars

Analyzed(ias) == {ias[k].commit_id : k \in DOMAIN ias}

\* C23: a commit whose repository association is null is never dispatched
\* for analysis: a commit gets its first interaction only when its
\* repository_id is set.
C23_NullRepositoryNotAnalyzed ==
    [][\A c \in Analyzed(interactions') \ Analyzed(interactions) :
           lcommits[c].repository_id # 0]_vars

----------------------------------------------------------------------------
(* Flows of control inside the reconciliation loop *)

\* the threads that are inside process_agent_analysis
InAnalysis == {t \in {Monitor} \cup AnaThreads : thr[t].pc \in {"select", "dispatch"}}

\* the monitor is inside process_webhook_events
InWebhookEvents == thr[Monitor].pc \in {"next_event", "push", "save", "pr", "mark", "trigger"}

\* C24: the reconciliation loop is a single flow of control: no two
\* executions of process_agent_analysis overlap, and none overlaps the
\* process_webhook_events of the same or of the next cycle.
C24_SingleFlow ==
    /\ Cardinality(InAnalysis) <= 1
    /\ ~(InWebhookEvents /\ InAnalysis # {})

----------------------------------------------------------------------------
(* Storage errors in the monitor cycle.  storageUp tells whether a storage *)
(* call made by the monitor (or by an analysis thread it started) succeeds *)
(* now; the webhook server has a connection of its own.  The monitor runs  *)
(* with agents on and working backends.  In a thread record, raised tells  *)
(* that a storage call of the current step has raised, and result is       *)
(* "error" when the step returns through its except branch; a step that    *)
(* returns otherwise returns 'success' with processed = n.                 *)

\* the storage server or the connection fails or recovers
StorageChange ==
    /\ storageUp' = ~storageUp
    /\ UNCHANGED <<fileVars, connVars, restartVars, serverVars>>

StorageRaised_abort_cycle(t) ==
    Set(t, [thr[t] EXCEPT !.pc = "trigger", !.todo = << >>, !.pl = 0, !.ev = 0,
                          !.i = 0, !.raised = TRUE, !.result = "error"])

\* process_unprocessed_events, "except Exception ... continue" around the
\* handling of one event: a storage error of handle_push_event or of
\* mark_event_processed ends the handling of this event only
StorageRaised(t) ==
    Set(t, [thr[t] EXCEPT !.pc = "next_event", !.pl = 0, !.ev = 0, !.i = 0,
                          !.raised = TRUE])

\* process_webhook_events when get_unprocessed_github_events raises: the
\* except branch returns {'status': 'error', 'processed': 0}
CycleStartFault ==
    /\ thr[Monitor].pc = "idle"
    /\ ~storageUp
    /\ Set(Monitor, [IdleThread EXCEPT !.pc = "trigger", !.raised = TRUE,
                                       !.result = "error"])
    /\ UNCHANGED <<webhook_secret, enable_agents, events, commits, interactions, delivered,
                   cycles, backendUp, registryVars, lifecycleVars, otherVars>>

CycleStartUp == storageUp /\ (CycleStart \/ CycleRestart)

\* handle_push_event makes a storage call unless its loop is over
PushCalls(t) ==
    /\ thr[t].pc = "push"
    /\ thr[t].i <= Len(Payloads[thr[t].pl].commits)

MonitorPushCheck == (storageUp \/ ~PushCalls(Monitor)) /\ PushCheck(Monitor)

MonitorPushSave == storageUp /\ PushSave(Monitor)

MonitorMark == storageUp /\ Mark(Monitor)

\* a storage call of the handling of the current event raises
EventFault ==
    /\ PushCalls(Monitor) \/ thr[Monitor].pc \in {"save", "mark"}
    /\ ~storageUp
    /\ StorageRaised(Monitor)
    /\ UNCHANGED <<webhook_secret, enable_agents, events, commits, interactions, delivered,
                   cycles, backendUp, registryVars, lifecycleVars, otherVars>>

TriggerUp == storageUp /\ Trigger

\* _trigger_agent_processing when its query raises: the error is logged and
\* no thread is started
TriggerFault ==
    /\ thr[Monitor].pc = "trigger"
    /\ enable_agents
    /\ ~storageUp
    /\ Set(Monitor, [IdleThread EXCEPT !.pc = "select"])
    /\ UNCHANGED <<webhook_secret, enable_agents, events, commits, interactions, delivered,
                   cycles, backendUp, registryVars, lifecycleVars, otherVars>>

SelectUp(t) == storageUp /\ Select(t)

\* process_agent_analysis when the query of process_unanalyzed_commits
\* raises: the except branch returns {'status': 'error', 'processed': 0}
SelectFault(t) ==
    /\ t \in {Monitor} \cup AnaThreads
    /\ thr[t].pc = "select"
    /\ ~storageUp
    /\ Set(t, [IdleThread EXCEPT !.pc = "dispatch", !.raised = TRUE, !.result = "error"])
    /\ UNCHANGED <<webhook_secret, enable_agents, events, commits, interactions, delivered,
                   cycles, backendUp, registryVars, lifecycleVars, otherVars>>

DispatchUp(t) == storageUp /\ Dispatch(t)

\* save_agent_interaction raises (and so does the save of the 'failed'
\* interaction in the except branch): process_commit_with_agents raises,
\* process_unanalyzed_commits prints the failure and continues with the next
\* commit; the results of this commit are lost
DispatchFault(t) ==
    /\ t \in {Monitor} \cup AnaThreads
    /\ thr[t].pc = "dispatch"
    /\ thr[t].todo # << >>
    /\ ~storageUp
    /\ Set(t, [thr[t] EXCEPT !.todo = Tail(thr[t].todo), !.stage = Backends[1],
                             !.raised = TRUE,
                             !.n = IF thr[t].stage = Backends[2] /\ thr[t].n > 0
                                   THEN thr[t].n - 1 ELSE thr[t].n])
    /\ UNCHANGED <<webhook_secret, enable_agents, events, commits, interactions, delivered,
                   cycles, backendUp, registryVars, lifecycleVars, otherVars>>

InitFaults ==
    /\ webhook_secret = ""
    /\ enable_agents = TRUE
    /\ backendUp = [b \in BackendSet |-> TRUE]
    /\ InitTables
    /\ Started

\* process_agent_analysis in a thread started by _trigger_agent_processing,
\* from its query to its return: the thread saves the interactions of the
\* commits it selected, or its query raises and it returns 'error'
AnalysisThread(t) ==
    /\ t \in AnaThreads
    /\ thr[t].pc = "select"
    /\ interactions' =
          IF storageUp
          THEN analyze_commits(interactions,
                               SortDesc(commits, Unanalyzed(commits, interactions)))
          ELSE interactions
    /\ Set(t, [IdleThread EXCEPT !.pc = "finished"])
    /\ UNCHANGED <<webhook_secret, enable_agents, events, commits, delivered, cycles,
                   backendUp, registryVars, lifecycleVars, otherVars>>

\* the deliveries of this specification: a push whose commit is stored and
\* a push with a malformed entry, which stays unprocessed
ReceiveFaults == ReceiveFrom(1, {1, 3})

NextFaults ==
    \/ ReceiveFaults
    \/ PushCheck(1)
    \/ PushSave(1)
    \/ Mark(1)
    \/ StorageChange
    \/ CycleStartUp
    \/ CycleStartFault
    \/ NextEvent
    \/ MonitorPushCheck
    \/ MonitorPushSave
    \/ MonitorMark
    \/ EventFault
    \/ TriggerUp
    \/ TriggerFault
    \/ SelectUp(Monitor)
    \/ SelectFault(Monitor)
    \/ DispatchUp(Monitor)
    \/ DispatchFault(Monitor)
    \/ Finish(Monitor)
    \/ \E t \in AnaThreads : AnalysisThread(t)

\* the steps of the monitor thread: one of them is enabled in every state
MonitorFaultStep ==
    \/ CycleStartUp \/ CycleStartFault
    \/ NextEvent
    \/ MonitorPushCheck \/ MonitorPushSave \/ MonitorMark \/ EventFault
    \/ TriggerUp \/ TriggerFault
    \/ SelectUp(Monitor) \/ SelectFault(Monitor)
    \/ DispatchUp(Monitor) \/ DispatchFault(Monitor)
    \/ Finish(Monitor)

\* schedule keeps running monitor_cycle while running is true, and every
\* started analysis thread runs to its end
SpecFaults ==
    /\ InitFaults
    /\ [][NextFaults]_vars
    /\ WF_vars(MonitorFaultStep)
    /\ \A t \in AnaThreads : WF_vars(AnalysisThread(t))


\* the monitor is at the return of process_webhook_events or of
\* process_agent_analysis
AtReturn ==
    \/ thr[Monitor].pc = "trigger"
    \/ thr[Monitor].pc = "dispatch" /\ thr[Monitor].todo = << >>

MonitorStepped == thr'[Monitor] # thr[Monitor]

----------------------------------------------------------------------------
(* Event rows and their interpretation *)

\* the deliveries that were accepted: handle_webhook stored the raw row of
\* each of them
Accepted == {e \in DOMAIN events : events[e].shape = "raw"}

\* C26: the number of github_events rows always equals the number of
\* accepted webhook deliveries: a delivery creates exactly one event row and
\* a replay creates none.
C26_OneEventPerDelivery ==
    /\ Len(events) = Cardinality(Accepted)
    /\ Len(events) <= delivered

\* the threads that are interpreting event e
Interpreting(e) ==
    {t \in Threads : thr[t].ev = e /\ thr[t].pc \in {"push", "save", "pr"}}

\* C27: an event is interpreted by at most one execution context:
\* process_unprocessed_events never replays an event that the handle_webhook
\* call that stored it is still interpreting.
C27_OneInterpreter ==
    \A e \in DOMAIN events : Cardinality(Interpreting(e)) <= 1

----------------------------------------------------------------------------
(* One DatabaseService shared by threads: initialize_services creates one  *)
(* DatabaseService, that is one psycopg2 connection, and the threaded      *)
(* Flask server calls its methods from every request thread.  A connection *)
(* has one transaction: a statement executed by any thread joins it,       *)
(* conn.commit() makes all of its statements durable and conn.rollback()   *)
(* discards all of them.  seq is the SERIAL sequence of the table; a row   *)
(* is written here as its id.                                              *)

\* a save_* method up to "cursor.execute(INSERT ... RETURNING id)": the
\* statement joins the open transaction; it raises when the statement is
\* rejected (a NOT NULL or length violation) and when the transaction is
\* already in the failed state
ConnExecute(t) ==
    /\ writer[t].pc = "idle"
    /\ conn.seq < MaxCalls
    /\ \E valid \in BOOLEAN :
         IF conn.aborted \/ ~valid
         THEN /\ conn' = [conn EXCEPT !.aborted = TRUE]
              /\ writer' = [writer EXCEPT ![t] = [pc |-> "except", id |-> 0]]
         ELSE /\ conn' = [conn EXCEPT !.seq = conn.seq + 1,
                                      !.pending = conn.pending \cup {conn.seq + 1}]
              /\ writer' = [writer EXCEPT ![t] = [pc |-> "executed", id |-> conn.seq + 1]]
    /\ UNCHANGED <<returned, fileVars, storageUp, restartVars, serverVars>>

\* "id = cursor.fetchone()[0]; self.conn.commit(); return id": the commit
\* ends the transaction of the connection; a transaction in the failed
\* state is rolled back by it
ConnCommit(t) ==
    /\ writer[t].pc = "executed"
    /\ conn' = [conn EXCEPT
                  !.committed = IF conn.aborted THEN conn.committed
                                ELSE conn.committed \cup conn.pending,
                  !.pending = {},
                  !.aborted = FALSE]
    /\ returned' = returned \cup {writer[t].id}
    /\ writer' = [writer EXCEPT ![t] = [pc |-> "idle", id |-> 0]]
    /\ UNCHANGED <<fileVars, storageUp, restartVars, serverVars>>

\* "except Exception: self.conn.rollback(); raise DataStorageError(...)"
ConnRollback(t) ==
    /\ writer[t].pc = "except"
    /\ conn' = [conn EXCEPT !.pending = {}, !.aborted = FALSE]
    /\ writer' = [writer EXCEPT ![t] = [pc |-> "idle", id |-> 0]]
    /\ UNCHANGED <<returned, fileVars, storageUp, restartVars, serverVars>>

InitConn ==
    /\ webhook_secret = ""
    /\ enable_agents = FALSE
    /\ backendUp = [b \in BackendSet |-> TRUE]
    /\ InitTables
    /\ Started

NextConn ==
    \/ \E t \in WebThreads : ConnExecute(t)
    \/ \E t \in WebThreads : ConnCommit(t)
    \/ \E t \in WebThreads : ConnRollback(t)

SpecConn == InitConn /\ [][NextConn]_vars

\* C28: writes are atomic and independent across the threads that share one
\* connection: a rollback by one thread after its own failed write never
\* discards a write of another thread, so every row for which a save_* call
\* returned an id is durably present.
C28_ReturnedIsDurable == returned \subseteq conn.committed

----------------------------------------------------------------------------
(* Repeated start() and stop() of one ContinuousMonitor.  schedule keeps   *)
(* its jobs in a list of the module that all callers share; monitors holds *)
(* one position per thread that start() has created: "test" (at "while     *)
(* self.running"), "pending" (inside schedule.run_pending), "sleep" (in    *)
(* time.sleep) or "dead".                                                  *)

\* start(): "if self.running: return"; else running = True, a monitor_cycle
\* job is added to the job list and a new thread is started
start ==
    /\ attempts < MaxAttempts
    /\ attempts' = attempts + 1
    /\ IF running
       THEN UNCHANGED <<running, jobs, monitors>>
       ELSE /\ running' = TRUE
            /\ jobs' = jobs + 1
            /\ monitors' = Append(monitors, "test")
    /\ UNCHANGED <<loop, stopper, closed, webhook_secret, enable_agents, events, commits,
                   interactions, thr, delivered, cycles, backendUp, registryVars,
                   fileVars, storageUp, connVars>>

\* stop(): "if not self.running: return"; else running = False,
\* monitor_thread.join(timeout=5) waits for the thread of the last start()
\* until it has ended or the timeout has passed, and the connections are
\* closed.  The job list is left as it is.
stop ==
    /\ attempts < MaxAttempts
    /\ attempts' = attempts + 1
    /\ IF ~running
       THEN UNCHANGED <<running, closed, monitors>>
       ELSE /\ running' = FALSE
            /\ closed' = TRUE
            /\ \E ended \in BOOLEAN :
                 monitors' = IF ended
                             THEN [monitors EXCEPT ![Len(monitors)] = "dead"]
                             ELSE monitors
    /\ UNCHANGED <<loop, stopper, jobs, webhook_secret, enable_agents, events, commits,
                   interactions, thr, delivered, cycles, backendUp, registryVars,
                   fileVars, storageUp, connVars>>

\* _monitor_loop of thread k: "while self.running:"
MonitorLoopTest(k) ==
    /\ k \in DOMAIN monitors
    /\ monitors[k] = "test"
    /\ monitors' = [monitors EXCEPT ![k] = IF running THEN "pending" ELSE "dead"]
    /\ UNCHANGED <<jobs, attempts, fileVars, storageUp, connVars, serverVars>>

\* _monitor_loop of thread k: time.sleep(1) is over
MonitorLoopSleep(k) ==
    /\ k \in DOMAIN monitors
    /\ monitors[k] = "sleep"
    /\ monitors' = [monitors EXCEPT ![k] = "test"]
    /\ UNCHANGED <<jobs, attempts, fileVars, storageUp, connVars, serverVars>>

\* _monitor_loop of thread k: schedule.run_pending() runs every job of the
\* list that is due
MonitorLoopRun(k) ==
    /\ k \in DOMAIN monitors
    /\ monitors[k] = "pending"
    /\ monitors' = [monitors EXCEPT ![k] = "sleep"]
    /\ \E due \in BOOLEAN :
         cycles' = IF due /\ cycles + jobs <= MaxCycles THEN cycles + jobs
                   ELSE IF due THEN MaxCycles ELSE cycles
    /\ UNCHANGED <<jobs, attempts, running, loop, stopper, closed, webhook_secret,
                   enable_agents, events, commits, interactions, thr, delivered,
                   backendUp, registryVars, fileVars, storageUp, connVars>>

InitRestart ==
    /\ webhook_secret = ""
    /\ enable_agents = FALSE
    /\ backendUp = [b \in BackendSet |-> TRUE]
    /\ InitTables
    /\ Constructed

NextRestart ==
    \/ start
    \/ stop
    \/ \E k \in 1..MaxAttempts : MonitorLoopTest(k)
    \/ \E k \in 1..MaxAttempts : MonitorLoopRun(k)
    \/ \E k \in 1..MaxAttempts : MonitorLoopSleep(k)

SpecRestart == InitRestart /\ [][NextRestart]_vars

AliveMonitors == {k \in DOMAIN monitors : monitors[k] # "dead"}

\* C29: after any sequence of start() and stop() calls at most one
\* _monitor_loop thread is alive and at most one monitor_cycle job is
\* registered.
C29_OneLoopOneJob ==
    /\ Cardinality(AliveMonitors) <= 1
    /\ jobs <= 1

----------------------------------------------------------------------------
(* The result of ensure_repository_isolation *)

\* C30: ensure_repository_isolation returns the id of the repository in
\* every reachable state: its back-fill never fails on
\* UNIQUE(commit_hash, repository_id), also when an unlinked and a linked
\* commit row of that repository carry the same hash.
C30_EnsureReturnsId ==
    ret.op = "ensure_repository_isolation" => ret.id # 0

====
